---- MODULE Spec2Model ----
(***************************************************************************)
(* Model of the version-scoped commit engine of cargo-version-info:        *)
(*   - commands/bump/diff.rs   line diff + version-relatedness filter      *)
(*   - commands/bump/index.rs  staging a blob in the git index             *)
(*   - commands/bump/tree.rs   building the root tree from the index       *)
(*   - commands/bump/mod.rs    the bump command around them                *)
(*   - commands/bump/version_update.rs  the version written to Cargo.toml  *)
(*   - commands/build_version.rs  the version a build is stamped with      *)
(* Text is modelled as a sequence of one-character strings, so that        *)
(* str::contains, the line split and the final join are computed.          *)
(***************************************************************************)
EXTENDS Integers, Sequences, FiniteSets, TLC

VARIABLES
    \* ---- diff.rs: the arguments and results of the two public functions
    head_content,      \* &str head_content
    working_content,   \* &str working_content
    old_version,       \* &str old_version
    new_version,       \* &str new_version
    diff,              \* TextDiff::from_lines(head_content, working_content)
    staged,            \* the String apply_version_hunks returned, once it has run
    non_version,       \* the bool has_non_version_changes returned, once it has run
    \* ---- index.rs / the commit pipeline
    state,             \* the in-memory gix::index::State (its entries)
    pending,           \* new_state inside stage_file, before it is returned
    prev_state,        \* the State stage_file was called with
    indexFile,         \* the bytes of .git/index on disk, as a sequence of chunks
    ipc,               \* position of the process
    result,            \* Result of the last call: "none", "ok" or "err"
    call,              \* the (relative_path, blob_id) stage_file was last called with
    manifest_path,     \* the path of the manifest relative to the repository root
    objects,           \* objects written to the object database
    branchRef,         \* the commit the current branch points to
    writes,            \* what the running invocation has written so far
    failedAt,          \* the pipeline step that returned Err, or "none"
    \* ---- mod.rs: the bump command
    manifest_file,     \* the content of Cargo.toml in the working tree
    args,              \* BumpArgs
    start,             \* the files, objects and branch as the invocation found them
    \* ---- build_version.rs
    env,               \* environment variables, GitHub's answer, manifest and HEAD
    printed,           \* what build_version printed, or its error
    computed           \* what compute_version_string returned

vars == <<head_content, working_content, old_version, new_version, diff, staged,
          non_version, state, pending, prev_state, indexFile, ipc, result,
          call, manifest_path, objects, branchRef, writes, failedAt,
          manifest_file, args, start, env, printed, computed>>

diffVars == <<head_content, working_content, old_version, new_version, diff,
              staged, non_version>>

indexVars == <<state, pending, prev_state, indexFile, ipc, result, call>>

buildVars == <<env, printed, computed>>

cmdVars == <<manifest_file, args, start, buildVars>>

repoVars == <<manifest_path, objects, branchRef, writes, failedAt, cmdVars>>

\* A call that has not returned yet, and one that returned value.
NotRun(default) == [done |-> FALSE, value |-> default]
Returned(value) == [done |-> TRUE, value |-> value]

(***************************************************************************)
(* Text                                                                    *)
(***************************************************************************)

\* The literal "version" of line.contains("version").
KeywordVersion == <<"v","e","r","s","i","o","n">>

V010 == <<"0",".","1",".","0">>
V020 == <<"0",".","2",".","0">>

LineVersionOld == <<"v","e","r","s","i","o","n","=","\"","0",".","1",".","0","\"","\n">>
LineVersionNew == <<"v","e","r","s","i","o","n","=","\"","0",".","2",".","0","\"","\n">>
LineDescOld == <<"d","e","s","c","=","\"","o","l","d","\"","\n">>
LineChangelog == <<"#"," ","0",".","1",".","0","\n">>
LineSerdeOld == <<"s","e","r","d","e"," ","="," ","\"","1",".","0","\"","\n">>
LineSerdeNew == <<"s","e","r","d","e"," ","="," ","{"," ","v","e","r","s","i","o","n"," ","="," ","\"","1",".","0","\"",","," ","f","e","a","t","u","r","e","s"," ","="," ","[","\"","d","e","r","i","v","e","\"","]"," ","}","\n">>

\* The lines the contents of the manifest are drawn from.
ManifestLines == {LineVersionOld, LineVersionNew, LineDescOld, LineChangelog,
                  LineSerdeOld, LineSerdeNew}

\* The (old_version, new_version) arguments bump passes on.
VersionPairs == {<<V010, V020>>}

\* Longest manifest, in lines.
MaxLines == 2

\* str::contains: needle occurs in hay as a contiguous substring.
Contains(hay, needle) ==
    \E i \in 0..(Len(hay) - Len(needle)) :
        SubSeq(hay, i + 1, i + Len(needle)) = needle

\* [String]::join(""): the concatenation of the lines.
RECURSIVE Join(_)
Join(lines) ==
    IF lines = <<>> THEN <<>> ELSE Head(lines) \o Join(Tail(lines))

\* Index of the first "\n" of text at or after position i, 0 when there is none.
RECURSIVE FindNewline(_, _)
FindNewline(text, i) ==
    IF i > Len(text) THEN 0
    ELSE IF text[i] = "\n" THEN i
    ELSE FindNewline(text, i + 1)

\* The tokens of TextDiff::from_lines: the text cut after every "\n", each
\* line keeping its terminator; a last line without terminator is a token too.
RECURSIVE SplitLines(_)
SplitLines(text) ==
    IF text = <<>> THEN <<>>
    ELSE LET nl == FindNewline(text, 1) IN
         IF nl = 0 THEN <<text>>
         ELSE <<SubSeq(text, 1, nl)>> \o SplitLines(SubSeq(text, nl + 1, Len(text)))

\* All texts made of at most n manifest lines.
RECURSIVE Contents(_)
Contents(n) ==
    IF n = 0 THEN {<<>>}
    ELSE LET shorter == Contents(n - 1) IN
         shorter \cup {c \o l : c \in shorter, l \in ManifestLines}

(***************************************************************************)
(* diff.rs                                                                 *)
(***************************************************************************)

Equal == "Equal"
Delete == "Delete"
Insert == "Insert"

Change(tag, value) == [tag |-> tag, value |-> value]

\* Length of a longest common subsequence of two line sequences.
RECURSIVE LcsLen(_, _)
LcsLen(a, b) ==
    IF a = <<>> \/ b = <<>> THEN 0
    ELSE IF Head(a) = Head(b) THEN 1 + LcsLen(Tail(a), Tail(b))
    ELSE LET x == LcsLen(Tail(a), b)
             y == LcsLen(a, Tail(b))
         IN IF x >= y THEN x ELSE y

\* Every edit script from a to b with at most budget Delete/Insert changes.
RECURSIVE EditScripts(_, _, _)
EditScripts(a, b, budget) ==
    IF budget < 0 THEN {}
    ELSE IF a = <<>> /\ b = <<>> THEN {<<>>}
    ELSE (IF a # <<>> /\ b # <<>> /\ Head(a) = Head(b)
            THEN {<<Change(Equal, Head(a))>> \o s :
                     s \in EditScripts(Tail(a), Tail(b), budget)}
            ELSE {})
         \cup
         (IF a # <<>>
            THEN {<<Change(Delete, Head(a))>> \o s :
                     s \in EditScripts(Tail(a), b, budget - 1)}
            ELSE {})
         \cup
         (IF b # <<>>
            THEN {<<Change(Insert, Head(b))>> \o s :
                     s \in EditScripts(a, Tail(b), budget - 1)}
            ELSE {})

\* Within a run of changes the deletions come before the insertions.
DeletesFirst(script) ==
    \A i \in 1..(Len(script) - 1) :
        ~(script[i].tag = Insert /\ script[i + 1].tag = Delete)

RECURSIVE AllOf(_, _)
AllOf(tag, lines) ==
    IF lines = <<>> THEN <<>>
    ELSE <<Change(tag, Head(lines))>> \o AllOf(tag, Tail(lines))

\* A diff that aligns nothing: every old line deleted, every new line inserted.
TextDiffFromLines_NoAlignment(old, new) ==
    {AllOf(Delete, SplitLines(old)) \o AllOf(Insert, SplitLines(new))}

\* TextDiff::from_lines(old, new).iter_all_changes(): the Myers diff of the
\* similar crate yields a shortest edit script over the lines, each changed
\* run as deletions followed by insertions.  Which of the shortest scripts
\* it yields is not fixed here: the result is one of them.
TextDiffFromLines(old, new) ==
    LET a == SplitLines(old)
        b == SplitLines(new)
        d == Len(a) + Len(b) - 2 * LcsLen(a, b)
    IN {s \in EditScripts(a, b, d) : DeletesFirst(s)}

\* The classifier looking for the keyword only.
is_version_related_KeywordOnly(line, old, new) ==
    Contains(line, KeywordVersion)

\* line.contains("version") || line.contains(old_version) || line.contains(new_version)
is_version_related(line, old, new) ==
    Contains(line, KeywordVersion) \/ Contains(line, old) \/ Contains(line, new)

\* The loop body with the Delete arm pushing the line whatever it holds.
PushChange_KeepsEveryDelete(change, old, new) ==
    IF change.tag = Equal THEN <<change.value>>
    ELSE IF change.tag = Delete THEN <<change.value>>
    ELSE IF is_version_related(change.value, old, new) THEN <<change.value>>
         ELSE <<>>

\* The loop body with the Insert arm pushing the line whatever it holds.
PushChange_AcceptsEveryInsert(change, old, new) ==
    IF change.tag = Equal THEN <<change.value>>
    ELSE IF change.tag = Delete
         THEN IF is_version_related(change.value, old, new) THEN <<>>
              ELSE <<change.value>>
    ELSE <<change.value>>

\* The body of the loop of apply_version_hunks: what one change pushes.
PushChange(change, old, new) ==
    IF change.tag = Equal THEN <<change.value>>
    ELSE IF change.tag = Delete
         THEN IF is_version_related(change.value, old, new) THEN <<>>
              ELSE <<change.value>>
    ELSE IF is_version_related(change.value, old, new) THEN <<change.value>>
         ELSE <<>>

\* The result vector of apply_version_hunks after the loop over the changes.
RECURSIVE CollectLines(_, _, _)
CollectLines(changes, old, new) ==
    IF changes = <<>> THEN <<>>
    ELSE PushChange(Head(changes), old, new) \o CollectLines(Tail(changes), old, new)

\* apply_version_hunks, given the changes of the diff.
apply_version_hunks(changes, old, new) ==
    Join(CollectLines(changes, old, new))

\* The predicate looking at Insert changes only.
has_non_version_changes_InsertsOnly(changes, old, new) ==
    \E i \in DOMAIN changes :
        /\ changes[i].tag = Insert
        /\ ~is_version_related(changes[i].value, old, new)

\* The predicate looking at Delete changes only.
has_non_version_changes_DeletesOnly(changes, old, new) ==
    \E i \in DOMAIN changes :
        /\ changes[i].tag = Delete
        /\ ~is_version_related(changes[i].value, old, new)

\* has_non_version_changes, given the changes of the diff: the loop returns
\* true at the first Delete or Insert that is not version related.
RECURSIVE has_non_version_changes(_, _, _)
has_non_version_changes(changes, old, new) ==
    IF changes = <<>> THEN FALSE
    ELSE LET change == Head(changes) IN
         IF change.tag \in {Delete, Insert}
            /\ ~is_version_related(change.value, old, new)
         THEN TRUE
         ELSE has_non_version_changes(Tail(changes), old, new)

(***************************************************************************)
(* index.rs                                                                *)
(***************************************************************************)

\* Paths as byte strings: "a", "a/b", "b" (47 is '/', 97 'a', 98 'b'),
\* listed in increasing byte order.
OrderedPaths == << <<97>>, <<97, 47, 98>>, <<98>> >>

IndexPaths == {OrderedPaths[i] : i \in DOMAIN OrderedPaths}

\* gix::index::entry::Mode of the entries an index holds.
IndexModes == {"FILE", "FILE_EXECUTABLE", "SYMLINK", "COMMIT"}

\* Object ids stage_file is called with, and the id of the entries already there.
BlobIds == {[blob |-> <<"1">>], [blob |-> <<"2">>]}
HeadBlobId == [blob |-> <<"0">>]

Entry(stat, id, flags, mode, path) ==
    [stat |-> stat, id |-> id, flags |-> flags, mode |-> mode, path |-> path]

\* An entry as git wrote it: stat of the file, flags as they were.
TrackedEntry(mode, path) == Entry("stat-of-file", HeadBlobId, "ASSUME_VALID", mode, path)

\* Byte-order comparison of two paths (slice ordering of [u8]).
RECURSIVE PathLess(_, _)
PathLess(a, b) ==
    IF b = <<>> THEN FALSE
    ELSE IF a = <<>> THEN TRUE
    ELSE IF Head(a) # Head(b) THEN Head(a) < Head(b)
    ELSE PathLess(Tail(a), Tail(b))

\* e placed into an already sorted vector, after the entries not greater
\* than it (the sort is stable).
RECURSIVE InsertByPath(_, _)
InsertByPath(e, sorted) ==
    IF sorted = <<>> THEN <<e>>
    ELSE IF PathLess(e.path, Head(sorted).path) THEN <<e>> \o sorted
    ELSE <<Head(sorted)>> \o InsertByPath(e, Tail(sorted))

RECURSIVE SortFrom(_, _)
SortFrom(entries, sorted) ==
    IF entries = <<>> THEN sorted
    ELSE SortFrom(Tail(entries), InsertByPath(Head(entries), sorted))

\* The entries left in push order.
sort_entries_PushOrder(entries) == entries

\* State::sort_entries(): the entries ordered by path.
sort_entries(entries) == SortFrom(entries, <<>>)

\* entries().iter().position(|e| e.path(..) == path_bytes): 0 for None.
RECURSIVE Position(_, _, _)
Position(entries, path, i) ==
    IF i > Len(entries) THEN 0
    ELSE IF entries[i].path = path THEN i
    ELSE Position(entries, path, i + 1)

\* The existing entry left in place.
remove_existing_entry_KeepsIt(entries, path) == entries

\* The "find and remove existing entry" step of stage_file.
remove_existing_entry(entries, path) ==
    LET pos == Position(entries, path, 1) IN
    IF pos = 0 THEN entries
    ELSE SubSeq(entries, 1, pos - 1) \o SubSeq(entries, pos + 1, Len(entries))

\* A copy loop that pushes every entry with a fresh stat.
copy_entries_DefaultStat(entries) ==
    [i \in DOMAIN entries |->
        Entry("default", entries[i].id, entries[i].flags, entries[i].mode,
              entries[i].path)]

\* The copy loop of stage_file: each remaining entry pushed to new_state
\* with its own stat, id, flags, mode and path.
copy_entries(entries) ==
    [i \in DOMAIN entries |->
        Entry(entries[i].stat, entries[i].id, entries[i].flags, entries[i].mode,
              entries[i].path)]

\* A staged entry that is always executable.
StagedEntry_Executable(path, blob_id) ==
    Entry("default", blob_id, "empty", "FILE_EXECUTABLE", path)

\* An entry that keeps pointing at the blob of HEAD.
StagedEntry_HeadBlob(path, blob_id) == Entry("default", HeadBlobId, "empty", "FILE", path)

\* The entry stage_file pushes for the staged path.
StagedEntry(path, blob_id) == Entry("default", blob_id, "empty", "FILE", path)

\* new_state without the push of the new entry.
stage_entries_NothingPushed(existing, path, blob_id) ==
    sort_entries(copy_entries(remove_existing_entry(existing, path)))

\* new_state of stage_file: the remaining entries copied, the new entry
\* pushed, the whole sorted.
stage_entries(existing, path, blob_id) ==
    sort_entries(copy_entries(remove_existing_entry(existing, path))
                 \o <<StagedEntry(path, blob_id)>>)

\* The index file as State::write_to produces it: header with the entry
\* count, the entries, then the trailing checksum over what precedes it.
Header(n) == [chunk |-> "header", count |-> n]
Trailer(body) == [chunk |-> "checksum", over |-> body]
EntryChunk(e) == [chunk |-> "entry", entry |-> e]

RECURSIVE EntryChunks(_)
EntryChunks(entries) ==
    IF entries = <<>> THEN <<>>
    ELSE <<EntryChunk(Head(entries))>> \o EntryChunks(Tail(entries))

write_to(entries) ==
    LET body == <<Header(Len(entries))>> \o EntryChunks(entries)
    IN body \o <<Trailer(body)>>

\* The file at index_path: absent, or there with the chunks written to it.
Missing == [exists |-> FALSE, chunks |-> <<>>]
OnDisk(chunks) == [exists |-> TRUE, chunks |-> chunks]

Err == [ok |-> FALSE, entries |-> <<>>]
Ok(entries) == [ok |-> TRUE, entries |-> entries]

RECURSIVE ChunkEntries(_)
ChunkEntries(chunks) ==
    IF chunks = <<>> THEN <<>>
    ELSE <<Head(chunks).entry>> \o ChunkEntries(Tail(chunks))

\* gix::index::File::at(path, object_hash, skip_hash, options).
FileAt(file, skip_hash) ==
    LET bytes == file.chunks IN
    IF ~file.exists THEN Err
    ELSE IF Len(bytes) = 0 \/ bytes[1].chunk # "header" THEN Err
    ELSE LET n == bytes[1].count IN
         IF Len(bytes) # n + 2 THEN Err
         ELSE IF \E i \in 2..(n + 1) : bytes[i].chunk # "entry" THEN Err
         ELSE IF bytes[n + 2].chunk # "checksum" THEN Err
         ELSE IF ~skip_hash /\ bytes[n + 2].over # SubSeq(bytes, 1, n + 1) THEN Err
         ELSE Ok(ChunkEntries(SubSeq(bytes, 2, n + 1)))

\* File::at with skip_hash = true: the checksum is not looked at.
load_index_state_SkipHash(file) == FileAt(file, TRUE)

\* load_index_state: File::at with skip_hash = false, so the checksum is verified.
load_index_state(file) == FileAt(file, FALSE)

\* What is on disk when write_to stops after k chunks.
WrittenPrefix(entries, k) == SubSeq(write_to(entries), 1, k)

StrictPrefixLengths(entries) == 0..(Len(write_to(entries)) - 1)

\* The sorted entry vectors over IndexPaths: each path absent or tracked
\* with some mode.
RECURSIVE TrackedFrom(_, _)
TrackedFrom(choice, i) ==
    IF i > Len(OrderedPaths) THEN <<>>
    ELSE (IF choice[i] = "absent" THEN <<>>
          ELSE <<TrackedEntry(choice[i], OrderedPaths[i])>>)
         \o TrackedFrom(choice, i + 1)

InitialStates ==
    {TrackedFrom(choice, 1) :
        choice \in [DOMAIN OrderedPaths -> IndexModes \cup {"absent"}]}

BlobId(content) == [blob |-> content]

\* No commit: a branch that is not born yet.
NoCommit == [kind |-> "none"]

NoCall == [made |-> FALSE, path |-> <<>>, blob_id |-> BlobId(<<>>)]
CallOf(path, blob_id) == [made |-> TRUE, path |-> path, blob_id |-> blob_id]

(***************************************************************************)
(* The two functions of diff.rs applied to bounded inputs                  *)
(***************************************************************************)

IndexUnused ==
    /\ state = <<>> /\ pending = <<>> /\ prev_state = <<>>
    /\ indexFile = Missing /\ ipc = "none" /\ result = "none" /\ call = NoCall

\* Option<String>
None == [some |-> FALSE, value |-> <<>>]
Some(value) == [some |-> TRUE, value |-> value]

\* BumpArgs of an invocation that is not the bump command.
NoArgs ==
    [version |-> None, auto |-> FALSE, major |-> FALSE, minor |-> FALSE,
     patch |-> FALSE, no_commit |-> FALSE]

\* What an invocation can change outside its own memory.
Snapshot ==
    [manifest_file |-> manifest_file, indexFile |-> indexFile,
     objects |-> objects, branchRef |-> branchRef]

\* The snapshot of an invocation that is followed through no repository.
NoSnapshot ==
    [manifest_file |-> <<>>, indexFile |-> Missing, objects |-> {},
     branchRef |-> NoCommit]

\* The environment of a process that is not build-version.
NoEnv ==
    [BUILD_VERSION |-> None, CARGO_PKG_VERSION_OVERRIDE |-> None,
     GITHUB_ACTIONS |-> None, owner_repo |-> FALSE,
     github |-> [ok |-> FALSE, value |-> <<>>], manifest |-> None, head |-> None]

\* A Result that is not there yet, Ok(value) and Err.
NotCalled == [done |-> FALSE, ok |-> FALSE, value |-> <<>>, why |-> "none"]
OkOf(value) == [done |-> TRUE, ok |-> TRUE, value |-> value, why |-> "none"]
ErrOf(why) == [done |-> TRUE, ok |-> FALSE, value |-> <<>>, why |-> why]

BuildUnused == env = NoEnv /\ printed = NotCalled /\ computed = NotCalled

RepoUnused ==
    /\ BuildUnused
    /\ manifest_path = <<>>
    /\ objects = {} /\ branchRef = NoCommit /\ writes = {} /\ failedAt = "none"
    /\ manifest_file = <<>>
    /\ args = NoArgs
    /\ start = NoSnapshot

InitDiff ==
    /\ head_content \in Contents(MaxLines)
    /\ working_content \in Contents(MaxLines)
    /\ \E v \in VersionPairs : old_version = v[1] /\ new_version = v[2]
    /\ diff \in TextDiffFromLines(head_content, working_content)
    /\ staged = NotRun(<<>>)
    /\ non_version = NotRun(FALSE)
    /\ IndexUnused
    /\ RepoUnused

ApplyVersionHunks ==
    /\ ~staged.done
    /\ staged' = Returned(apply_version_hunks(diff, old_version, new_version))
    /\ UNCHANGED <<head_content, working_content, old_version, new_version, diff,
                   non_version, indexVars, repoVars>>

HasNonVersionChanges ==
    /\ ~non_version.done
    /\ non_version' = Returned(has_non_version_changes(diff, old_version, new_version))
    /\ UNCHANGED <<head_content, working_content, old_version, new_version, diff,
                   staged, indexVars, repoVars>>

NextDiff == ApplyVersionHunks \/ HasNonVersionChanges

SpecDiff == InitDiff /\ [][NextDiff]_vars

(***************************************************************************)
(* Properties of diff.rs, checked under SpecDiff                           *)
(***************************************************************************)

Range(seq) == {seq[i] : i \in DOMAIN seq}

ChangedLines(tag) == {diff[i].value : i \in {j \in DOMAIN diff : diff[j].tag = tag}}

HasWord(line) == Contains(line, KeywordVersion)

\* Every deleted line holds old_version or the word "version", every
\* inserted line holds new_version or the word "version".
OnlyVersionTokenLines ==
    /\ \A l \in ChangedLines(Delete) : Contains(l, old_version) \/ HasWord(l)
    /\ \A l \in ChangedLines(Insert) : Contains(l, new_version) \/ HasWord(l)

\* C1: when head_content and working_content differ only in version-token
\* lines, apply_version_hunks returns exactly working_content.
C1_PureVersionEditGivesWorking ==
    (staged.done /\ OnlyVersionTokenLines) => staged.value = working_content

C1_Witness ==
    /\ staged.done
    /\ OnlyVersionTokenLines
    /\ ChangedLines(Delete) # {}
    /\ ChangedLines(Insert) # {}
    /\ \E i \in DOMAIN diff : diff[i].tag = Equal
    /\ staged.value = working_content

\* The positions of a same-length pair of line vectors that differ.
EditedPositions(H, W) == {i \in DOMAIN H : H[i] # W[i]}

TouchesVersion(line) == Contains(line, old_version) \/ Contains(line, new_version)

\* after is before with one occurrence of old_version replaced by new_version.
VersionReplaced(before, after) ==
    \E i \in 0..(Len(before) - Len(old_version)) :
        /\ SubSeq(before, i + 1, i + Len(old_version)) = old_version
        /\ after = SubSeq(before, 1, i) \o new_version
                   \o SubSeq(before, i + Len(old_version) + 1, Len(before))

\* Position k is the one version-line edit of the pair: old_version replaced
\* by new_version there, and no other edited line touches a version string.
OneVersionEdit(H, W, k) ==
    /\ Len(H) = Len(W)
    /\ k \in EditedPositions(H, W)
    /\ VersionReplaced(H[k], W[k])
    /\ \A i \in EditedPositions(H, W) \ {k} :
          ~TouchesVersion(H[i]) /\ ~TouchesVersion(W[i])

\* C2: with one version-line edit and N unrelated line edits, the output
\* holds the new version string and, for each unrelated edit, the HEAD line
\* and not the working-tree line.
C2_UnrelatedEditsKeepHead ==
    LET H == SplitLines(head_content)
        W == SplitLines(working_content)
    IN \A k \in DOMAIN H :
          (staged.done /\ OneVersionEdit(H, W, k)) =>
             /\ Contains(staged.value, new_version)
             /\ \A i \in EditedPositions(H, W) \ {k} :
                   /\ Contains(staged.value, H[i])
                   /\ ~Contains(staged.value, W[i])

\* C3: has_non_version_changes is true exactly when some Delete or Insert
\* change of the diff is not version related, false when there is no such
\* change (no Delete or Insert at all, or all of them version related).
C3_PredicateIffNonVersionChange ==
    non_version.done =>
        (non_version.value <=>
            \E l \in ChangedLines(Delete) \cup ChangedLines(Insert) :
                ~(HasWord(l) \/ TouchesVersion(l)))

C3_Witness ==
    /\ non_version.done
    /\ ~non_version.value
    /\ ChangedLines(Delete) # {}
    /\ ChangedLines(Insert) # {}

\* The changes whose line the output keeps.
KeptChange(c) ==
    \/ c.tag = Equal
    \/ c.tag = Delete /\ ~(HasWord(c.value) \/ TouchesVersion(c.value))
    \/ c.tag = Insert /\ (HasWord(c.value) \/ TouchesVersion(c.value))

RECURSIVE ConcatValues(_)
ConcatValues(changes) ==
    IF changes = <<>> THEN <<>>
    ELSE Head(changes).value \o ConcatValues(Tail(changes))

\* C4: the output is the concatenation, in diff order, of every Equal line,
\* every Delete line that is not version related and every Insert line that
\* is version related.
C4_OutputIsKeptLinesInOrder ==
    staged.done => staged.value = ConcatValues(SelectSeq(diff, KeptChange))

C4_Witness ==
    /\ staged.done
    /\ \E i, j, k \in DOMAIN diff :
          /\ diff[i].tag = Equal
          /\ diff[j].tag = Delete /\ ~KeptChange(diff[j])
          /\ diff[k].tag = Insert /\ ~KeptChange(diff[k])
    /\ staged.value = ConcatValues(SelectSeq(diff, KeptChange))

\* C5: for identical contents has_non_version_changes is false and
\* apply_version_hunks returns head_content unchanged.
C5_IdenticalContentsAreKept ==
    (head_content = working_content) =>
        /\ non_version.done => ~non_version.value
        /\ staged.done => staged.value = head_content

C5_Witness ==
    /\ head_content = working_content
    /\ Len(SplitLines(head_content)) >= 2
    /\ non_version.done /\ ~non_version.value
    /\ staged.done /\ staged.value = head_content

\* C6: when the working copy changes the version line and replaces the
\* serde dependency line, the output holds the serde line of HEAD and not
\* the new one.
C6_SerdeEditNotStaged ==
    LET H == Range(SplitLines(head_content))
        W == Range(SplitLines(working_content))
    IN (/\ staged.done
        /\ old_version = V010 /\ new_version = V020
        /\ LineVersionOld \in H \ W /\ LineVersionNew \in W \ H
        /\ LineSerdeOld \in H \ W /\ LineSerdeNew \in W \ H)
       => /\ Contains(staged.value, LineVersionNew)
          /\ ~Contains(staged.value, LineVersionOld)
          /\ Contains(staged.value, LineSerdeOld)
          /\ ~Contains(staged.value, LineSerdeNew)


(***************************************************************************)
(* stage_file and load_index_state as steps of a process                   *)
(***************************************************************************)

\* load_index_state(index_path): Ok leaves the process at `to` holding the
\* State, Err ends the invocation.
LoadIndex(from, to) ==
    /\ ipc = from
    /\ LET loaded == load_index_state(indexFile) IN
       IF loaded.ok
       THEN /\ state' = loaded.entries
            /\ ipc' = to
            /\ result' = "ok"
            /\ failedAt' = failedAt
       ELSE /\ state' = state
            /\ ipc' = "failed"
            /\ result' = "err"
            /\ failedAt' = "load"
    /\ UNCHANGED <<pending, prev_state, indexFile, call, manifest_path, objects,
                   branchRef, writes, diffVars, cmdVars>>

\* stage_file up to and including File::create(index_path): new_state is
\* built and sorted in memory, the file on disk is truncated to length 0.
StageFile_Create(from, path, blob_id) ==
    /\ ipc = from
    /\ call' = CallOf(path, blob_id)
    /\ prev_state' = state
    /\ pending' = stage_entries(state, path, blob_id)
    /\ indexFile' = OnDisk(<<>>)
    /\ ipc' = "writing"
    /\ writes' = writes \cup {"index"}
    /\ UNCHANGED <<state, result, manifest_path, objects, branchRef, failedAt,
                   diffVars, cmdVars>>

\* File::create fails (permissions, missing directory): Err, nothing on disk changes.
StageFile_CreateFails(from, path, blob_id) ==
    /\ ipc = from
    /\ call' = CallOf(path, blob_id)
    /\ prev_state' = state
    /\ ipc' = "failed"
    /\ result' = "err"
    /\ failedAt' = "stage"
    /\ UNCHANGED <<state, pending, indexFile, manifest_path, objects, branchRef,
                   writes, diffVars, cmdVars>>

\* new_state.write_to(&mut file) succeeds and stage_file returns Ok(new_state).
StageFile_WriteTo(to) ==
    /\ ipc = "writing"
    /\ indexFile' = OnDisk(write_to(pending))
    /\ state' = pending
    /\ pending' = <<>>
    /\ ipc' = to
    /\ result' = "ok"
    /\ UNCHANGED <<prev_state, call, manifest_path, objects, branchRef, writes,
                   failedAt, diffVars, cmdVars>>

\* The error of write_to dropped instead of propagated with `?`.
StageFile_WriteFails_ErrorDropped ==
    /\ ipc = "writing"
    /\ \E k \in StrictPrefixLengths(pending) :
          indexFile' = OnDisk(WrittenPrefix(pending, k))
    /\ ipc' = "staged"
    /\ result' = "err"
    /\ failedAt' = "stage"
    /\ UNCHANGED <<state, pending, prev_state, call, manifest_path, objects,
                   branchRef, writes, diffVars, cmdVars>>

\* write_to fails part way (disk full, I/O error): Err, the file keeps what
\* was written before the failure.
StageFile_WriteFails ==
    /\ ipc = "writing"
    /\ \E k \in StrictPrefixLengths(pending) :
          indexFile' = OnDisk(WrittenPrefix(pending, k))
    /\ ipc' = "failed"
    /\ result' = "err"
    /\ failedAt' = "stage"
    /\ UNCHANGED <<state, pending, prev_state, call, manifest_path, objects,
                   branchRef, writes, diffVars, cmdVars>>

\* The process stops (killed, power loss).  Inside write_to the file keeps
\* the chunks written so far, possibly all of them.
Crash ==
    /\ ipc \notin {"start", "failed", "crashed", "done"}
    /\ IF ipc = "writing"
       THEN \E k \in 0..Len(write_to(pending)) :
               indexFile' = OnDisk(WrittenPrefix(pending, k))
       ELSE indexFile' = indexFile
    /\ failedAt' = ipc
    /\ ipc' = "crashed"
    /\ UNCHANGED <<state, pending, prev_state, result, call, manifest_path,
                   objects, branchRef, writes, diffVars, cmdVars>>

\* The user runs the command again after a failure or a crash.
Restart ==
    /\ ipc \in {"crashed", "failed"}
    /\ failedAt # "load"
    /\ ipc' = "start"
    /\ state' = <<>>
    /\ pending' = <<>>
    /\ prev_state' = <<>>
    /\ result' = "none"
    /\ call' = NoCall
    /\ failedAt' = "none"
    /\ writes' = {}
    /\ UNCHANGED <<indexFile, manifest_path, objects, branchRef, diffVars, cmdVars>>

DiffUnused ==
    /\ head_content = <<>> /\ working_content = <<>>
    /\ old_version = <<>> /\ new_version = <<>>
    /\ diff = <<>>
    /\ staged = NotRun(<<>>)
    /\ non_version = NotRun(FALSE)

\* A repository whose index file holds a valid index.
InitIndex ==
    /\ \E s \in InitialStates : indexFile = OnDisk(write_to(s))
    /\ state = <<>> /\ pending = <<>> /\ prev_state = <<>>
    /\ ipc = "start" /\ result = "none" /\ call = NoCall
    /\ DiffUnused
    /\ RepoUnused

NextIndex ==
    \/ LoadIndex("start", "loaded")
    \/ \E path \in IndexPaths, blob_id \in BlobIds :
          StageFile_Create("loaded", path, blob_id)
    \/ \E path \in IndexPaths, blob_id \in BlobIds :
          StageFile_CreateFails("loaded", path, blob_id)
    \/ StageFile_WriteTo("loaded")
    \/ StageFile_WriteFails
    \/ Crash
    \/ Restart

SpecIndex == InitIndex /\ [][NextIndex]_vars

(***************************************************************************)
(* Properties of index.rs, checked under SpecIndex                         *)
(***************************************************************************)

StrictlyIncreasingPaths(entries) ==
    \A i \in 1..(Len(entries) - 1) : PathLess(entries[i].path, entries[i + 1].path)

Staged(e) == e.id \in BlobIds

\* C7: after any sequence of stage_file calls from a valid index, the
\* entries of the resulting state are in strictly increasing byte order of
\* path (so no two share a path).
C7_EntriesStrictlySorted ==
    /\ StrictlyIncreasingPaths(state)
    /\ \A i, j \in DOMAIN state : i # j => state[i].path # state[j].path

C7_Witness ==
    /\ ipc = "loaded" /\ result = "ok"
    /\ Len(state) = Len(OrderedPaths)
    /\ Staged(state[1]) /\ state[1].path = call.path
    /\ \E j \in 2..Len(state) : Staged(state[j])
    /\ StrictlyIncreasingPaths(state)

EntriesAt(entries, path) == {i \in DOMAIN entries : entries[i].path = path}

\* C8: once stage_file(path, blob_id) has returned, the state holds exactly
\* one entry for path and its id is blob_id, also when the path was there.
C8_UpdateSemantics ==
    (ipc = "loaded" /\ call.made /\ result = "ok") =>
        /\ Cardinality(EntriesAt(state, call.path)) = 1
        /\ \A i \in EntriesAt(state, call.path) : state[i].id = call.blob_id

C8_Witness ==
    /\ ipc = "loaded" /\ call.made /\ result = "ok"
    /\ \E i \in EntriesAt(prev_state, call.path) :
          Staged(prev_state[i]) /\ prev_state[i].id # call.blob_id
    /\ Cardinality(EntriesAt(state, call.path)) = 1
    /\ \A i \in EntriesAt(state, call.path) : state[i].id = call.blob_id

\* C9: a process that stops while stage_file writes the index file leaves
\* on disk the complete previous index or the complete new one.
C9_PersistIsAtomic ==
    (ipc = "crashed" /\ failedAt = "writing") =>
        LET onDisk == load_index_state(indexFile) IN
        /\ onDisk.ok
        /\ onDisk.entries \in {prev_state, pending}


(***************************************************************************)
(* tree.rs                                                                 *)
(***************************************************************************)

\* A conversion that knows regular files only.
convert_mode_to_tree_mode_AllBlob(mode) == "Blob"

\* convert_mode_to_tree_mode: index entry mode to tree EntryKind.
convert_mode_to_tree_mode(mode) ==
    CASE mode = "FILE" -> "Blob"
      [] mode = "FILE_EXECUTABLE" -> "BlobExecutable"
      [] mode = "SYMLINK" -> "Link"
      [] mode = "DIR" -> "Tree"
      [] mode = "COMMIT" -> "Commit"
      [] OTHER -> "Blob"

\* entry_path.split(|&b| b == b'/'): the parts between the '/' bytes.
RECURSIVE SplitPath(_, _)
SplitPath(path, part) ==
    IF path = <<>> THEN <<part>>
    ELSE IF Head(path) = 47 THEN <<part>> \o SplitPath(Tail(path), <<>>)
    ELSE SplitPath(Tail(path), Append(part, Head(path)))

\* path_parts.join(&[b'/'][..]).
RECURSIVE JoinPath(_)
JoinPath(parts) ==
    IF Len(parts) = 1 THEN parts[1]
    ELSE parts[1] \o <<47>> \o JoinPath(Tail(parts))

TreeEntry(mode, filename, oid) == [mode |-> mode, filename |-> filename, oid |-> oid]

\* Only the path_parts.len() == 1 branch pushes an entry.
RECURSIVE RootEntries_TopLevelOnly(_)
RootEntries_TopLevelOnly(entries) ==
    IF entries = <<>> THEN <<>>
    ELSE LET e == Head(entries) IN
         (IF Len(SplitPath(e.path, <<>>)) = 1
          THEN <<TreeEntry(convert_mode_to_tree_mode(e.mode), e.path, e.id)>>
          ELSE <<>>)
         \o RootEntries_TopLevelOnly(Tail(entries))

\* The entries collected for the root tree, in index order: both branches
\* of `if path_parts.len() == 1` push into the root, under the joined path.
RECURSIVE RootEntries(_)
RootEntries(entries) ==
    IF entries = <<>> THEN <<>>
    ELSE LET e == Head(entries) IN
         <<TreeEntry(convert_mode_to_tree_mode(e.mode),
                     JoinPath(SplitPath(e.path, <<>>)), e.id)>>
         \o RootEntries(Tail(entries))

RECURSIVE InsertByFilename(_, _)
InsertByFilename(e, sorted) ==
    IF sorted = <<>> THEN <<e>>
    ELSE IF PathLess(e.filename, Head(sorted).filename) THEN <<e>> \o sorted
    ELSE <<Head(sorted)>> \o InsertByFilename(e, Tail(sorted))

\* The entries in the order they were pushed.
SortByFilename_PushOrder(entries, sorted) == entries

\* tree_entries.sort_by(|a, b| a.filename.cmp(&b.filename))
RECURSIVE SortByFilename(_, _)
SortByFilename(entries, sorted) ==
    IF entries = <<>> THEN sorted
    ELSE SortByFilename(Tail(entries), InsertByFilename(Head(entries), sorted))

\* build_tree_from_index: the one tree object written, which is the root.
build_tree_from_index(entries) ==
    [kind |-> "tree", entries |-> SortByFilename(RootEntries(entries), <<>>)]

(***************************************************************************)
(* The commit pipeline of bump                                             *)
(***************************************************************************)

Blob(content) == [kind |-> "blob", content |-> content]

\* A commit written without looking at HEAD.
Commit_RootCommit(tree, parent, old, new) ==
    [kind |-> "commit", tree |-> tree, parents |-> <<>>,
     message |-> [bump_from |-> old, bump_to |-> new]]

Commit(tree, parent, old, new) ==
    [kind |-> "commit", tree |-> tree,
     parents |-> IF parent = NoCommit THEN <<>> ELSE <<parent>>,
     message |-> [bump_from |-> old, bump_to |-> new]]

\* The commit HEAD points to in a repository with history.
HeadCommit ==
    [kind |-> "commit", tree |-> [kind |-> "tree", entries |-> <<>>],
     parents |-> <<>>, message |-> [bump_from |-> <<>>, bump_to |-> <<>>]]

\* (head_content, working_content) of the manifest: a pure version edit, a
\* version edit next to an unrelated edit, the serde edit of the module doc.
BumpScenarios ==
    { <<LineVersionOld \o LineDescOld, LineVersionNew \o LineDescOld>>,
      <<LineVersionOld \o LineDescOld, LineVersionNew \o LineSerdeOld>>,
      <<LineVersionOld \o LineSerdeOld, LineVersionNew \o LineSerdeNew>> }

\* s with the entry of path, if any, holding blob id.
RECURSIVE WithBlobAt(_, _, _)
WithBlobAt(entries, path, id) ==
    IF entries = <<>> THEN <<>>
    ELSE (IF Head(entries).path = path
          THEN <<[Head(entries) EXCEPT !.id = id]>>
          ELSE <<Head(entries)>>)
         \o WithBlobAt(Tail(entries), path, id)

\* An index file whose checksum does not match its content.
BadChecksum(entries) ==
    LET good == write_to(entries)
    IN OnDisk(SubSeq(good, 1, Len(good) - 1) \o <<Trailer(<<>>)>>)

\* What can be at index_path when bump starts: nothing, the index git
\* wrote, what an interrupted write left, or a damaged file.
IndexFilesOf(entries) ==
    {Missing, OnDisk(write_to(entries)), BadChecksum(entries)}
    \cup {OnDisk(WrittenPrefix(entries, k)) : k \in StrictPrefixLengths(entries)}

InitBump ==
    /\ \E sc \in BumpScenarios : head_content = sc[1] /\ working_content = sc[2]
    /\ \E v \in VersionPairs : old_version = v[1] /\ new_version = v[2]
    /\ diff \in TextDiffFromLines(head_content, working_content)
    /\ staged = NotRun(<<>>)
    /\ non_version = NotRun(FALSE)
    /\ manifest_path \in IndexPaths
    /\ \E s \in InitialStates :
          indexFile \in IndexFilesOf(WithBlobAt(s, manifest_path, BlobId(head_content)))
    /\ state = <<>> /\ pending = <<>> /\ prev_state = <<>>
    /\ ipc = "start" /\ result = "none" /\ call = NoCall
    /\ branchRef \in {NoCommit, HeadCommit}
    /\ objects = {Blob(head_content)} \cup (IF branchRef = NoCommit THEN {} ELSE {branchRef})
    /\ writes = {}
    /\ failedAt = "none"
    /\ manifest_file = working_content
    /\ args = NoArgs
    /\ start = Snapshot
    /\ BuildUnused

\* A step of the pipeline returns Err: the error is propagated, nothing more runs.
StepFails(from, step) ==
    /\ ipc = from
    /\ ipc' = "failed"
    /\ result' = "err"
    /\ failedAt' = step
    /\ UNCHANGED <<state, pending, prev_state, indexFile, call, manifest_path,
                   objects, branchRef, writes, diffVars, cmdVars>>

\* The diff classifier: the predicate decides whether the working file is
\* staged whole or filtered to its version-related changes.
Classify ==
    /\ ipc = "loaded"
    /\ LET has == has_non_version_changes(diff, old_version, new_version) IN
       /\ non_version' = Returned(has)
       /\ staged' = Returned(IF has
                             THEN apply_version_hunks(diff, old_version, new_version)
                             ELSE working_content)
    /\ ipc' = "classified"
    /\ UNCHANGED <<head_content, working_content, old_version, new_version, diff,
                   state, pending, prev_state, indexFile, result, call, repoVars>>

\* write_blob(partial_content)
WriteBlob ==
    /\ ipc = "classified"
    /\ objects' = objects \cup {Blob(staged.value)}
    /\ writes' = writes \cup {"blob"}
    /\ ipc' = "blob-written"
    /\ UNCHANGED <<state, pending, prev_state, indexFile, result, call,
                   manifest_path, branchRef, failedAt, diffVars, cmdVars>>

\* build_tree_from_index(&new_state, repo): the root tree is written.
BuildTree ==
    /\ ipc = "staged"
    /\ objects' = objects \cup {build_tree_from_index(state)}
    /\ writes' = writes \cup {"tree"}
    /\ ipc' = "tree-built"
    /\ UNCHANGED <<state, pending, prev_state, indexFile, result, call,
                   manifest_path, branchRef, failedAt, diffVars, cmdVars>>

\* write_commit(tree_id, parent = previous HEAD, message)
WriteCommit ==
    /\ ipc = "tree-built"
    /\ objects' = objects \cup
          {Commit(build_tree_from_index(state), branchRef, old_version, new_version)}
    /\ writes' = writes \cup {"commit"}
    /\ ipc' = "committed"
    /\ UNCHANGED <<state, pending, prev_state, indexFile, result, call,
                   manifest_path, branchRef, failedAt, diffVars, cmdVars>>

\* update_ref(branch of HEAD, commit_id)
UpdateRef ==
    /\ ipc = "committed"
    /\ branchRef' = Commit(build_tree_from_index(state), branchRef, old_version,
                           new_version)
    /\ writes' = writes \cup {"ref"}
    /\ ipc' = "done"
    /\ UNCHANGED <<state, pending, prev_state, indexFile, result, call,
                   manifest_path, objects, failedAt, diffVars, cmdVars>>

NextBump ==
    \/ LoadIndex("start", "loaded")
    \/ Classify
    \/ WriteBlob
    \/ StepFails("classified", "blob")
    \/ StageFile_Create("blob-written", manifest_path, BlobId(staged.value))
    \/ StageFile_CreateFails("blob-written", manifest_path, BlobId(staged.value))
    \/ StageFile_WriteTo("staged")
    \/ StageFile_WriteFails
    \/ BuildTree
    \/ StepFails("staged", "tree")
    \/ WriteCommit
    \/ StepFails("tree-built", "commit")
    \/ UpdateRef
    \/ StepFails("committed", "ref")
    \/ Crash

SpecBump == InitBump /\ [][NextBump]_vars

(***************************************************************************)
(* Properties of the pipeline, checked under SpecBump                      *)
(***************************************************************************)

\* The file is what write_to produces for some entries.
WellFormed(file) ==
    /\ file.exists
    /\ Len(file.chunks) >= 2
    /\ \A i \in 2..(Len(file.chunks) - 1) : file.chunks[i].chunk = "entry"
    /\ file.chunks = write_to(ChunkEntries(SubSeq(file.chunks, 2, Len(file.chunks) - 1)))

ModeOtherBits == "OTHER_BITS"

\* The modes an index entry can carry on the way into build_tree_from_index.
TreeModes == IndexModes \cup {"DIR", ModeOtherBits}

TreeInputEntries ==
    {Entry("stat-of-file", id, "ASSUME_VALID", mode, path) :
        id \in {HeadBlobId, BlobId(<<"1">>)}, mode \in TreeModes, path \in IndexPaths}

\* Entry vectors with one entry per path, in any order: the function sorts
\* on its own and does not rely on the order it is given.
TreeInputs ==
    {s \in UNION {[1..k -> TreeInputEntries] : k \in 0..Len(OrderedPaths)} :
        \A i, j \in DOMAIN s : i # j => s[i].path # s[j].path}

InitTree ==
    /\ DiffUnused
    /\ state \in TreeInputs
    /\ pending = <<>> /\ prev_state = <<>>
    /\ indexFile = Missing
    /\ ipc = "staged" /\ result = "none" /\ call = NoCall
    /\ RepoUnused

NextTree == BuildTree \/ StepFails("staged", "tree")

SpecTree == InitTree /\ [][NextTree]_vars

(***************************************************************************)
(* Properties of tree.rs, checked under SpecTree                           *)
(***************************************************************************)

WrittenTrees == {o \in objects : o.kind = "tree"}

\* The table of the mode conversion: index mode, tree entry kind.
ModeTable ==
    { <<"FILE", "Blob">>, <<"FILE_EXECUTABLE", "BlobExecutable">>,
      <<"SYMLINK", "Link">>, <<"DIR", "Tree">>, <<"COMMIT", "Commit">> }

KindOf(mode) ==
    IF \E p \in ModeTable : p[1] = mode
    THEN (CHOOSE p \in ModeTable : p[1] = mode)[2]
    ELSE "Blob"

ModeOfKind(kind) == (CHOOSE p \in ModeTable : p[2] = kind)[1]

\* Walking a tree: an entry of kind Tree that names a tree object is
\* entered with its filename as the next path segment, any other entry
\* yields (path, mode, content id).
RECURSIVE ReadTree(_, _)
RECURSIVE ReadEntries(_, _)
ReadTree(tree, prefix) == ReadEntries(tree.entries, prefix)
ReadEntries(entries, prefix) ==
    IF entries = <<>> THEN <<>>
    ELSE LET e == Head(entries) IN
         (IF e.mode = "Tree" /\ "kind" \in DOMAIN e.oid
          THEN ReadTree(e.oid, prefix \o e.filename \o <<47>>)
          ELSE <<[path |-> prefix \o e.filename, mode |-> ModeOfKind(e.mode),
                  id |-> e.oid]>>)
         \o ReadEntries(Tail(entries), prefix)

IndexTuples(entries) ==
    [i \in DOMAIN entries |->
        [path |-> entries[i].path, mode |-> entries[i].mode, id |-> entries[i].id]]

Count(seq, x) == Cardinality({i \in DOMAIN seq : seq[i] = x})

SameMultiset(a, b) ==
    \A x \in Range(a) \cup Range(b) : Count(a, x) = Count(b, x)

FileModesOnly(entries) == \A i \in DOMAIN entries : entries[i].mode \in IndexModes

\* C11: for every index state whose entries carry the modes of a file,
\* symlink or gitlink, reading back the tree build_tree_from_index wrote
\* yields the same multiset of (path, mode, content id) as the index.
C11_TreeReadsBackAsIndex ==
    (ipc = "tree-built" /\ FileModesOnly(state)) =>
        \A t \in WrittenTrees : SameMultiset(ReadTree(t, <<>>), IndexTuples(state))

C11_Witness ==
    /\ ipc = "tree-built" /\ FileModesOnly(state)
    /\ Len(state) = 3
    /\ state[1].path = <<98>> /\ state[2].path = <<97, 47, 98>>
    /\ state[1].mode = "SYMLINK" /\ state[2].mode = "FILE_EXECUTABLE"
    /\ state[1].id # state[2].id
    /\ \E t \in WrittenTrees : SameMultiset(ReadTree(t, <<>>), IndexTuples(state))

\* C12: the tree is hierarchical: no entry of a written tree has a '/' in
\* its filename, and an index entry with a directory part is reached
\* through an entry of kind Tree named by its first segment.
C12_TreeIsHierarchical ==
    /\ \A t \in WrittenTrees : \A i \in DOMAIN t.entries :
          47 \notin Range(t.entries[i].filename)
    /\ ipc = "tree-built" =>
          \A k \in DOMAIN state :
              LET parts == SplitPath(state[k].path, <<>>) IN
              Len(parts) > 1 =>
                 \A t \in WrittenTrees : \E i \in DOMAIN t.entries :
                     /\ t.entries[i].filename = parts[1]
                     /\ t.entries[i].mode = "Tree"

NotAfter(a, b) == a = b \/ PathLess(a, b)

\* C13: the entries of every written tree are in byte order of their
\* filenames, whatever the order of the index entries.
C13_TreeEntriesSorted ==
    \A t \in WrittenTrees : \A i, j \in DOMAIN t.entries :
        i < j => NotAfter(t.entries[i].filename, t.entries[j].filename)

C13_Witness ==
    /\ ipc = "tree-built"
    /\ Len(state) = 3
    /\ PathLess(state[3].path, state[1].path)
    /\ PathLess(state[1].path, state[2].path)
    /\ \E t \in WrittenTrees :
          /\ Len(t.entries) = 3
          /\ t.entries[1].filename = state[3].path
          /\ t.entries[3].filename = state[2].path

NewObjects == objects \ start.objects

NewCommits == {o \in NewObjects : o.kind = "commit"}

ParentsFrom(head) == IF head = NoCommit THEN <<>> ELSE <<head>>

\* C15: a commit the pipeline writes has the commit HEAD pointed to at the
\* start as its only parent, or no parent in a repository without HEAD;
\* the objects that existed stay and at most one commit is added.
C15_SingleParentIsStartHead ==
    /\ \A c \in NewCommits :
          /\ Len(c.parents) <= 1
          /\ c.parents = ParentsFrom(start.branchRef)
    /\ start.objects \subseteq objects
    /\ Cardinality(NewCommits) <= 1
    /\ ipc = "done" => (Cardinality(NewCommits) = 1 /\ branchRef \in NewCommits)

C15_Witness ==
    /\ ipc = "done"
    /\ start.branchRef = HeadCommit
    /\ branchRef # HeadCommit
    /\ branchRef.parents = <<HeadCommit>>
    /\ HeadCommit \in objects

\* The steps of the pipeline in their order.
StepOrder == <<"blob", "index", "tree", "commit", "ref">>

\* The (path, mode, id) tuples of tree that belong to path.
CommittedAt(tree, path) ==
    LET read == ReadTree(tree, <<>>)
    IN {read[i] : i \in {j \in DOMAIN read : read[j].path = path}}

\* C16: a step has written only when the steps before it have: the index
\* is loaded and the diff classified before the blob is written, then
\* stage, tree, commit, reference.  The branch moves only in the last step,
\* to the written commit whose tree is built from the staged index.
C16_StepsInOrder ==
    /\ \A i, j \in DOMAIN StepOrder :
          (i < j /\ StepOrder[j] \in writes) => StepOrder[i] \in writes
    /\ writes # {} => (ipc # "start" /\ staged.done /\ non_version.done)
    /\ staged.done => (ipc # "start" /\ result # "none")
    /\ "blob" \in writes => Blob(staged.value) \in objects
    /\ "tree" \in writes =>
          /\ indexFile = OnDisk(write_to(state))
          /\ build_tree_from_index(state) \in objects
          /\ \A t \in CommittedAt(build_tree_from_index(state), manifest_path) :
                t.id = BlobId(staged.value)
          /\ CommittedAt(build_tree_from_index(state), manifest_path) # {}
    /\ branchRef # start.branchRef => "ref" \in writes
    /\ "ref" \in writes =>
          /\ branchRef \in objects
          /\ branchRef.kind = "commit"
          /\ branchRef.tree = build_tree_from_index(state)

C16_Witness ==
    /\ ipc = "done"
    /\ writes = Range(StepOrder)
    /\ branchRef \in NewCommits
    /\ branchRef.tree \in objects
    /\ \E t \in CommittedAt(branchRef.tree, manifest_path) : t.id = BlobId(staged.value)

FailingSteps == {"load", "blob", "stage", "tree", "commit", "ref"}

\* C17: a step that fails ends the invocation in an error with the branch
\* where it was, and nothing runs after the failure.
C17_FailureStopsThePipeline ==
    /\ [](failedAt \in FailingSteps =>
            (/\ ipc = "failed" /\ result = "err"
             /\ branchRef = start.branchRef
             /\ "ref" \notin writes))
    /\ [][ipc = "failed" => UNCHANGED vars]_vars

C17_Witness ==
    /\ failedAt = "ref" /\ ipc = "failed"
    /\ NewCommits # {}
    /\ branchRef = start.branchRef
    /\ branchRef \notin NewCommits

\* C18: when the tree build, the commit write or the reference update
\* fails, the index file is the one the invocation found.
C18_FailureAfterStagingKeepsIndex ==
    failedAt \in {"tree", "commit", "ref"} => indexFile = start.indexFile

\* The working tree and the committed content after a bump commit: the
\* manifest is as the pipeline found it, the commit holds partial_content
\* at the manifest path, the new objects are the blob, the tree and the
\* commit.
WorkingTreeKept ==
    /\ manifest_file = start.manifest_file
    /\ manifest_file = working_content
    /\ ipc = "done" =>
          /\ CommittedAt(branchRef.tree, manifest_path) # {}
          /\ \A t \in CommittedAt(branchRef.tree, manifest_path) :
                t.id = BlobId(staged.value)
          /\ NewObjects \subseteq {Blob(staged.value), branchRef.tree, branchRef}
          /\ branchRef \in NewCommits

\* C19 as stated: besides the new commit and the moved branch nothing
\* outside the process has changed, the index file included.
C19_OnlyCommitAndRef ==
    /\ WorkingTreeKept
    /\ ipc = "done" => indexFile = start.indexFile

\* C19 amended: the pipeline leaves the working tree alone and commits
\* partial_content; what it changes is the object database (blob, tree,
\* commit), the index file, rewritten with the staged entry, and the branch.
C19_WorkingTreeUntouched ==
    /\ WorkingTreeKept
    /\ ipc = "done" =>
          LET before == load_index_state(start.indexFile) IN
          /\ before.ok
          /\ indexFile = OnDisk(write_to(stage_entries(before.entries, manifest_path,
                                                       BlobId(staged.value))))

C19_Witness ==
    /\ ipc = "done"
    /\ non_version.value
    /\ staged.value # working_content
    /\ manifest_file = working_content
    /\ indexFile # start.indexFile
    /\ \E t \in CommittedAt(branchRef.tree, manifest_path) : t.id = BlobId(staged.value)


(***************************************************************************)
(* mod.rs: the bump command                                                *)
(***************************************************************************)

LinePackage == <<"[","p","a","c","k","a","g","e","]","\n">>
LineWorkspacePackage == <<"[","w","o","r","k","s","p","a","c","e",".","p","a","c","k","a","g","e","]","\n">>
LineWorkspace == <<"[","w","o","r","k","s","p","a","c","e","]","\n">>
VersionKey == <<"v","e","r","s","i","o","n"," ","="," ","\"">>

\* The line toml_edit writes for the version key with default decoration.
VersionLine(v) == VersionKey \o v \o <<"\"", "\n">>

IsVersionLine(line) ==
    /\ Len(line) >= Len(VersionKey) + 2
    /\ SubSeq(line, 1, Len(VersionKey)) = VersionKey

VersionValue(line) == SubSeq(line, Len(VersionKey) + 1, Len(line) - 2)

\* The version of the workspace member cargo metadata resolves when the
\* manifest itself carries none.
MemberVersion == V010

\* find_package(manifest_path).version: the version cargo metadata reports.
find_package_version(content) ==
    LET lines == SplitLines(content)
        at == {i \in DOMAIN lines : IsVersionLine(lines[i])}
    IN IF at = {} THEN MemberVersion
       ELSE VersionValue(lines[CHOOSE i \in at : \A j \in at : i <= j])

\* str::trim on the characters the arguments are drawn from.
Whitespace == {" ", "\n"}

RECURSIVE TrimStart(_)
TrimStart(text) ==
    IF text # <<>> /\ Head(text) \in Whitespace THEN TrimStart(Tail(text)) ELSE text

RECURSIVE TrimEnd(_)
TrimEnd(text) ==
    IF text # <<>> /\ text[Len(text)] \in Whitespace
    THEN TrimEnd(SubSeq(text, 1, Len(text) - 1))
    ELSE text

Trim(text) == TrimEnd(TrimStart(text))

DigitChars == <<"0", "1", "2", "3", "4", "5", "6", "7", "8", "9">>

IsDigit(c) == \E i \in DOMAIN DigitChars : DigitChars[i] = c

DigitOf(c) == (CHOOSE i \in DOMAIN DigitChars : DigitChars[i] = c) - 1

\* The parts of text between the '.' characters.
RECURSIVE SplitDots(_, _)
SplitDots(text, part) ==
    IF text = <<>> THEN <<part>>
    ELSE IF Head(text) = "." THEN <<part>> \o SplitDots(Tail(text), <<>>)
    ELSE SplitDots(Tail(text), Append(part, Head(text)))

RECURSIVE ParseNumber(_, _)
ParseNumber(digits, acc) ==
    IF digits = <<>> THEN acc
    ELSE ParseNumber(Tail(digits), 10 * acc + DigitOf(Head(digits)))

RECURSIVE FormatNumber(_)
FormatNumber(n) ==
    IF n < 10 THEN <<DigitChars[n + 1]>>
    ELSE FormatNumber(n \div 10) \o <<DigitChars[(n % 10) + 1]>>

\* parse_version: "major.minor.patch" as three numbers, or an error.
parse_version(text) ==
    LET parts == SplitDots(text, <<>>) IN
    IF /\ Len(parts) = 3
       /\ \A i \in 1..3 : parts[i] # <<>> /\ \A k \in DOMAIN parts[i] : IsDigit(parts[i][k])
    THEN [ok |-> TRUE, value |-> [i \in 1..3 |-> ParseNumber(parts[i], 0)]]
    ELSE [ok |-> FALSE, value |-> <<0, 0, 0>>]

increment_major(major, minor, patch) == <<major + 1, 0, 0>>
increment_minor(major, minor, patch) == <<major, minor + 1, 0>>
increment_patch(major, minor, patch) == <<major, minor, patch + 1>>

format_version(major, minor, patch) ==
    FormatNumber(major) \o <<".">> \o FormatNumber(minor) \o <<".">> \o FormatNumber(patch)

\* What github::calculate_next_version can return for the repository: an
\* error, ("0.0.0", "0.0.1") without releases, or the patch increment of
\* the latest release.
LatestReleases == {V010, V020}

GithubNextVersions ==
    {[ok |-> FALSE, value |-> <<>>], [ok |-> TRUE, value |-> format_version(0, 0, 1)]}
    \cup {LET v == parse_version(latest).value
              n == increment_patch(v[1], v[2], v[3])
          IN [ok |-> TRUE, value |-> format_version(n[1], n[2], n[3])] :
             latest \in LatestReleases}

\* calculate_target_version, given what GitHub answers in --auto mode.
calculate_target_version(a, current_version, github) ==
    IF a.version.some THEN [ok |-> TRUE, value |-> Trim(a.version.value)]
    ELSE IF a.auto THEN github
    ELSE LET parsed == parse_version(current_version) IN
         IF ~parsed.ok THEN [ok |-> FALSE, value |-> <<>>]
         ELSE LET v == parsed.value
                  n == IF a.major THEN increment_major(v[1], v[2], v[3])
                       ELSE IF a.minor THEN increment_minor(v[1], v[2], v[3])
                       ELSE increment_patch(v[1], v[2], v[3])
              IN [ok |-> TRUE, value |-> format_version(n[1], n[2], n[3])]

\* lines with the first version line replaced, or the version line added
\* at the end of the table when it has none.
RECURSIVE WithVersion(_, _)
WithVersion(lines, v) ==
    IF lines = <<>> THEN <<VersionLine(v)>>
    ELSE IF IsVersionLine(Head(lines)) THEN <<VersionLine(v)>> \o Tail(lines)
    ELSE <<Head(lines)>> \o WithVersion(Tail(lines), v)

\* A line that is not TOML: a table header that is not closed.
LineBroken == <<"[", "p", "a", "c", "k", "a", "g", "e", "\n">>

\* A version update that does not ask for a package table.
update_cargo_toml_version_AnyTable(content, new) ==
    LET lines == SplitLines(content) IN
    IF \E i \in DOMAIN lines : lines[i] = LineBroken
    THEN [ok |-> FALSE, content |-> content]
    ELSE [ok |-> TRUE, content |-> Join(WithVersion(lines, new))]

\* update_cargo_toml_version on the content read from the manifest: the
\* error of a document that does not parse, the document with
\* package.version (or workspace.package.version) set, or the error of a
\* manifest with neither table.
update_cargo_toml_version(content, new) ==
    LET lines == SplitLines(content) IN
    IF \E i \in DOMAIN lines : lines[i] = LineBroken
    THEN [ok |-> FALSE, content |-> content]
    ELSE IF \E i \in DOMAIN lines : lines[i] \in {LinePackage, LineWorkspacePackage}
    THEN [ok |-> TRUE, content |-> Join(WithVersion(lines, new))]
    ELSE [ok |-> FALSE, content |-> content]

\* (manifest at HEAD, manifest in the working tree) when bump starts: a
\* clean crate, a crate with an uncommitted edit, a workspace that carries
\* the version, a workspace root without a package table.
CmdScenarios ==
    { <<LinePackage \o VersionLine(V010) \o LineDescOld,
        LinePackage \o VersionLine(V010) \o LineDescOld>>,
      <<LinePackage \o VersionLine(V010) \o LineDescOld,
        LinePackage \o VersionLine(V010) \o LineSerdeOld>>,
      <<LineWorkspacePackage \o VersionLine(V010),
        LineWorkspacePackage \o VersionLine(V010)>>,
      <<LineWorkspace \o LineDescOld, LineWorkspace \o LineDescOld>> }

\* The command lines: --version (as typed, with and without blanks around
\* it), --auto, --major, --minor, --patch, no flag; each with and without
\* --no-commit.
CmdArgs ==
    {[NoArgs EXCEPT !.version = Some(v), !.no_commit = nc] :
        v \in {V010, <<" ">> \o V010 \o <<" ">>, V020}, nc \in BOOLEAN}
    \cup {[NoArgs EXCEPT !.auto = f = "auto", !.major = f = "major",
                         !.minor = f = "minor", !.patch = f = "patch",
                         !.no_commit = nc] :
             f \in {"auto", "major", "minor", "patch", "none"}, nc \in BOOLEAN}

\* The index of the repository bump runs in: every path tracked.
CmdIndex(path, head) ==
    WithBlobAt([i \in DOMAIN OrderedPaths |-> TrackedEntry("FILE", OrderedPaths[i])],
               path, BlobId(head))

InitCmd ==
    /\ \E sc \in CmdScenarios : head_content = sc[1] /\ manifest_file = sc[2]
    /\ working_content = <<>>
    /\ old_version = <<>> /\ new_version = <<>>
    /\ diff = <<>>
    /\ staged = NotRun(<<>>)
    /\ non_version = NotRun(FALSE)
    /\ manifest_path \in IndexPaths
    /\ indexFile \in {Missing, OnDisk(write_to(CmdIndex(manifest_path, head_content)))}
    /\ state = <<>> /\ pending = <<>> /\ prev_state = <<>>
    /\ ipc = "bump" /\ result = "none" /\ call = NoCall
    /\ branchRef \in {NoCommit, HeadCommit}
    /\ objects = {Blob(head_content)} \cup (IF branchRef = NoCommit THEN {} ELSE {branchRef})
    /\ writes = {}
    /\ failedAt = "none"
    /\ args \in CmdArgs
    /\ start = Snapshot
    /\ BuildUnused

\* Step 1: find_package(...)?.version
FindPackage ==
    /\ ipc = "bump"
    /\ old_version' = find_package_version(manifest_file)
    /\ ipc' = "found"
    /\ UNCHANGED <<head_content, working_content, new_version, diff, staged,
                   non_version, state, pending, prev_state, indexFile, result,
                   call, repoVars>>

\* Step 1 fails: cargo metadata cannot read or resolve the manifest.
FindPackageFails ==
    /\ ipc = "bump"
    /\ ipc' = "failed"
    /\ result' = "err"
    /\ failedAt' = "find"
    /\ UNCHANGED <<diffVars, state, pending, prev_state, indexFile, call,
                   manifest_path, objects, branchRef, writes, cmdVars>>

\* Step 2: calculate_target_version(&args, &current_version)?
CalculateTargetVersion ==
    /\ ipc = "found"
    /\ \E github \in GithubNextVersions :
          LET target == calculate_target_version(args, old_version, github) IN
          IF target.ok
          THEN /\ new_version' = target.value
               /\ ipc' = "calculated"
               /\ UNCHANGED <<result, failedAt>>
          ELSE /\ new_version' = new_version
               /\ ipc' = "failed"
               /\ result' = "err"
               /\ failedAt' = "calculate"
    /\ UNCHANGED <<head_content, working_content, old_version, diff, staged,
                   non_version, state, pending, prev_state, indexFile, call,
                   manifest_path, objects, branchRef, writes, cmdVars>>

\* Step 3 without the comparison.
VerifyVersionChanges_NoComparison ==
    /\ ipc = "calculated"
    /\ ipc' = "verified"
    /\ UNCHANGED <<result, failedAt>>
    /\ UNCHANGED <<diffVars, state, pending, prev_state, indexFile, call,
                   manifest_path, objects, branchRef, writes, cmdVars>>

\* Step 3: if current_version == target_version { bail!("... Nothing to bump.") }
VerifyVersionChanges ==
    /\ ipc = "calculated"
    /\ IF old_version = new_version
       THEN /\ ipc' = "failed"
            /\ result' = "err"
            /\ failedAt' = "verify"
       ELSE /\ ipc' = "verified"
            /\ UNCHANGED <<result, failedAt>>
    /\ UNCHANGED <<diffVars, state, pending, prev_state, indexFile, call,
                   manifest_path, objects, branchRef, writes, cmdVars>>

\* Step 4: version_update::update_cargo_toml_version(manifest_path, ..)?
\* read_to_string can fail, the document can be refused, and fs::write can
\* fail before or after it has truncated the file.
UpdateCargoToml ==
    /\ ipc = "verified"
    /\ \E io \in {"ok", "read fails", "write fails"} :
          LET updated == update_cargo_toml_version(manifest_file, new_version) IN
          IF io = "read fails" \/ ~updated.ok
          THEN /\ manifest_file' = manifest_file
               /\ writes' = writes
               /\ ipc' = "failed"
               /\ result' = "err"
               /\ failedAt' = "update"
          ELSE IF io = "write fails"
          THEN /\ \E left \in {manifest_file, <<>>} :
                     /\ manifest_file' = left
                     /\ writes' = IF left = manifest_file THEN writes
                                  ELSE writes \cup {"manifest"}
               /\ ipc' = "failed"
               /\ result' = "err"
               /\ failedAt' = "write"
          ELSE /\ manifest_file' = updated.content
               /\ writes' = writes \cup {"manifest"}
               /\ ipc' = "updated"
               /\ UNCHANGED <<result, failedAt>>
    /\ UNCHANGED <<diffVars, state, pending, prev_state, indexFile, call,
                   manifest_path, objects, branchRef, args, start, buildVars>>

\* Step 5 with --no-commit: bump returns Ok(()).
FinishWithoutCommit ==
    /\ ipc = "updated"
    /\ args.no_commit
    /\ ipc' = "done"
    /\ result' = "ok"
    /\ UNCHANGED <<diffVars, state, pending, prev_state, indexFile, call, repoVars>>

\* Step 5 entered without looking at args.no_commit.
CommitVersionChanges_FlagIgnored ==
    /\ ipc = "updated"
    /\ working_content' = manifest_file
    /\ diff' \in TextDiffFromLines(head_content, manifest_file)
    /\ ipc' = "start"
    /\ UNCHANGED <<head_content, old_version, new_version, staged, non_version,
                   state, pending, prev_state, indexFile, result, call, repoVars>>

\* Step 5 without --no-commit: commit::commit_version_changes is entered
\* with the manifest as it is on disk now.
CommitVersionChanges ==
    /\ ipc = "updated"
    /\ ~args.no_commit
    /\ working_content' = manifest_file
    /\ diff' \in TextDiffFromLines(head_content, manifest_file)
    /\ ipc' = "start"
    /\ UNCHANGED <<head_content, old_version, new_version, staged, non_version,
                   state, pending, prev_state, indexFile, result, call, repoVars>>

NextCmd ==
    \/ FindPackage
    \/ FindPackageFails
    \/ CalculateTargetVersion
    \/ VerifyVersionChanges
    \/ UpdateCargoToml
    \/ FinishWithoutCommit
    \/ CommitVersionChanges
    \/ NextBump

SpecCmd == InitCmd /\ [][NextCmd]_vars

(***************************************************************************)
(* Properties of the bump command, checked under SpecCmd                   *)
(***************************************************************************)

\* C20: when the target version equals the current version bump ends in
\* the "Nothing to bump" error with nothing written: the manifest, the
\* index file, the objects and the branch are as bump found them.
C20_NothingToBump ==
    /\ failedAt = "verify" =>
          /\ ipc = "failed" /\ result = "err"
          /\ old_version = new_version
          /\ writes = {}
          /\ Snapshot = start
    /\ (/\ new_version # <<>>
        /\ old_version = new_version
        /\ ipc \notin {"calculated", "crashed"}) => failedAt = "verify"

C20_Witness ==
    /\ failedAt = "verify" /\ ipc = "failed"
    /\ args.version.some
    /\ args.version.value # old_version
    /\ Trim(args.version.value) = old_version
    /\ Snapshot = start
    /\ indexFile.exists


\* The positions of the process inside commit_version_changes.
PipelinePositions ==
    {"start", "loaded", "classified", "blob-written", "writing", "staged",
     "tree-built", "committed"}

\* C21: with --no-commit bump writes the target version into Cargo.toml and
\* nothing else: commit_version_changes is not entered, the objects, the
\* index file and the branch are as bump found them.
C21_NoCommitWritesManifestOnly ==
    args.no_commit =>
        /\ ipc \notin PipelinePositions
        /\ writes \subseteq {"manifest"}
        /\ ~staged.done /\ ~call.made
        /\ objects = start.objects
        /\ indexFile = start.indexFile
        /\ branchRef = start.branchRef
        /\ ipc = "done" =>
              /\ result = "ok"
              /\ writes = {"manifest"}
              /\ find_package_version(manifest_file) = new_version
              /\ Contains(manifest_file, VersionLine(new_version))
              /\ ~Contains(manifest_file, VersionLine(old_version))

C21_Witness ==
    /\ args.no_commit
    /\ ipc = "done"
    /\ writes = {"manifest"}
    /\ manifest_file # start.manifest_file
    /\ Contains(manifest_file, VersionLine(new_version))
    /\ Contains(manifest_file, LineSerdeOld)
    /\ objects = start.objects
    /\ indexFile.exists /\ indexFile = start.indexFile


(***************************************************************************)
(* build_version.rs                                                        *)
(***************************************************************************)

V000 == <<"0", ".", "0", ".", "0">>
ShortSha == <<"a", "1", "b", "2", "c", "3", "d">>
DevPrefix == <<"0", ".", "0", ".", "0", "-", "d", "e", "v", "-">>

JsonVersion == <<"{", "\"", "v", "e", "r", "s", "i", "o", "n", "\"", ":", "\"">>
\* The closing part of the JSON line for each source.
JsonSource(source) ==
    CASE source = "environment" -> <<"\"", ",", "\"", "s", "o", "u", "r", "c", "e", "\"", ":", "\"", "e", "n", "v", "i", "r", "o", "n", "m", "e", "n", "t", "\"", "}">>
      [] source = "github_api" -> <<"\"", ",", "\"", "s", "o", "u", "r", "c", "e", "\"", ":", "\"", "g", "i", "t", "h", "u", "b", "_", "a", "p", "i", "\"", "}">>
      [] source = "cargo_toml" -> <<"\"", ",", "\"", "s", "o", "u", "r", "c", "e", "\"", ":", "\"", "c", "a", "r", "g", "o", "_", "t", "o", "m", "l", "\"", "}">>
      [] source = "git" -> <<"\"", ",", "\"", "s", "o", "u", "r", "c", "e", "\"", ":", "\"", "g", "i", "t", "\"", "}">>

JsonSha == <<"\"", ",", "\"", "s", "h", "a", "\"", ":", "\"">>

\* What build-version can find around it.  The variables: unset, empty,
\* blank, a version.  owner_repo: whether get_owner_repo finds the
\* repository.  The manifest: unreadable, a crate, a crate with the
\* placeholder version, a workspace, a crate without version.  HEAD: no
\* repository, a repository without commit, a repository with a commit.
BuildEnvs ==
    [BUILD_VERSION : {None, Some(<<>>), Some(<<" ">>), Some(V020)},
     CARGO_PKG_VERSION_OVERRIDE : {None, Some(<<>>), Some(V010)},
     GITHUB_ACTIONS : {None, Some(<<"t", "r", "u", "e">>)},
     owner_repo : BOOLEAN,
     github : GithubNextVersions,
     manifest : {None,
                 Some(LinePackage \o VersionLine(V010) \o LineDescOld),
                 Some(LinePackage \o VersionLine(V000)),
                 Some(LineWorkspacePackage \o VersionLine(V010)),
                 Some(LinePackage \o LineDescOld)},
     head : {[repo |-> FALSE, commit |-> None], [repo |-> TRUE, commit |-> None],
             [repo |-> TRUE, commit |-> Some(ShortSha)]}]

\* ["BUILD_VERSION", "CARGO_PKG_VERSION_OVERRIDE"].into_iter()
\*     .find_map(|key| env::var(key).ok())    the first key that is set
\*     .filter(|v| !v.trim().is_empty())      kept unless it is blank
env_version(e) ==
    LET found == IF e.BUILD_VERSION.some THEN e.BUILD_VERSION
                 ELSE e.CARGO_PKG_VERSION_OVERRIDE
    IN IF found.some /\ Trim(found.value) # <<>> THEN found ELSE None

\* read_manifest_version: package.version of the manifest when it is a string.
read_manifest_version(manifest) ==
    IF ~manifest.some THEN None
    ELSE LET lines == SplitLines(manifest.value)
             at == {i \in DOMAIN lines : IsVersionLine(lines[i])}
         IN IF (\E i \in DOMAIN lines : lines[i] = LinePackage) /\ at # {}
            THEN Some(VersionValue(lines[CHOOSE i \in at : \A j \in at : i <= j]))
            ELSE None

\* short_sha: the shortened id of HEAD's commit, if there is one.
short_sha(head) == IF head.repo THEN head.commit ELSE None

\* format!("{trimmed}-{sha}") or trimmed alone.
version_with_sha(trimmed, head) ==
    IF short_sha(head).some THEN trimmed \o <<"-">> \o short_sha(head).value
    ELSE trimmed

\* The match on args.format of the first three sources.
PrintVersion(format, version, json_source) ==
    IF format = "version" THEN OkOf(version)
    ELSE IF format = "json" THEN OkOf(JsonVersion \o version \o json_source)
    ELSE ErrOf("Invalid format")

\* The final fallback: gix::discover, repo.head(), head.id(), 0.0.0-dev-<sha>.
GitFallback(head) ==
    IF ~head.repo THEN ErrOf("Failed to discover git repository")
    ELSE IF ~head.commit.some THEN ErrOf("HEAD does not point to a commit")
    ELSE OkOf(DevPrefix \o head.commit.value)

\* build_version: what it prints (the line without its newline) or its error.
build_version(a, e) ==
    IF env_version(e).some
    THEN PrintVersion(a.format, env_version(e).value, JsonSource("environment"))
    ELSE IF e.GITHUB_ACTIONS.some /\ ~e.owner_repo
    THEN ErrOf("get_owner_repo")
    ELSE IF e.GITHUB_ACTIONS.some /\ e.github.ok
    THEN PrintVersion(a.format, e.github.value, JsonSource("github_api"))
    ELSE LET manifest_version == read_manifest_version(e.manifest) IN
         IF /\ manifest_version.some
            /\ Trim(manifest_version.value) # <<>>
            /\ Trim(manifest_version.value) # V000
         THEN PrintVersion(a.format,
                           version_with_sha(Trim(manifest_version.value), e.head),
                           JsonSource("cargo_toml"))
         ELSE LET dev == GitFallback(e.head) IN
              IF ~dev.ok THEN dev
              ELSE IF a.format = "version" THEN dev
              ELSE IF a.format = "json"
              THEN OkOf(JsonVersion \o dev.value \o JsonSha \o e.head.commit.value
                        \o JsonSource("git"))
              ELSE ErrOf("Invalid format")

\* compute_version_string that leaves the sha off the manifest version.
compute_version_string_NoSha(e) ==
    IF env_version(e).some THEN OkOf(env_version(e).value)
    ELSE IF e.GITHUB_ACTIONS.some /\ ~e.owner_repo THEN ErrOf("get_owner_repo")
    ELSE IF e.GITHUB_ACTIONS.some /\ e.github.ok THEN OkOf(e.github.value)
    ELSE LET manifest_version == read_manifest_version(e.manifest) IN
         IF /\ manifest_version.some
            /\ Trim(manifest_version.value) # <<>>
            /\ Trim(manifest_version.value) # V000
         THEN OkOf(Trim(manifest_version.value))
         ELSE GitFallback(e.head)

\* compute_version_string: the String it returns or its error.
compute_version_string(e) ==
    IF env_version(e).some THEN OkOf(env_version(e).value)
    ELSE IF e.GITHUB_ACTIONS.some /\ ~e.owner_repo THEN ErrOf("get_owner_repo")
    ELSE IF e.GITHUB_ACTIONS.some /\ e.github.ok THEN OkOf(e.github.value)
    ELSE LET manifest_version == read_manifest_version(e.manifest) IN
         IF /\ manifest_version.some
            /\ Trim(manifest_version.value) # <<>>
            /\ Trim(manifest_version.value) # V000
         THEN OkOf(version_with_sha(Trim(manifest_version.value), e.head))
         ELSE GitFallback(e.head)

InitBuild ==
    /\ DiffUnused
    /\ IndexUnused
    /\ manifest_path = <<>>
    /\ objects = {} /\ branchRef = NoCommit /\ writes = {} /\ failedAt = "none"
    /\ manifest_file = <<>>
    /\ start = NoSnapshot
    /\ args \in {[owner |-> None, repo |-> None, github_token |-> None,
                   format |-> f] : f \in {"version", "json", "yaml"}}
    /\ env \in BuildEnvs
    /\ printed = NotCalled
    /\ computed = NotCalled

BuildVersion ==
    /\ ~printed.done
    /\ printed' = build_version(args, env)
    /\ UNCHANGED <<diffVars, indexVars, manifest_path, objects, branchRef, writes,
                   failedAt, manifest_file, args, start, env, computed>>

ComputeVersionString ==
    /\ ~computed.done
    /\ computed' = compute_version_string(env)
    /\ UNCHANGED <<diffVars, indexVars, manifest_path, objects, branchRef, writes,
                   failedAt, manifest_file, args, start, env, printed>>

NextBuild == BuildVersion \/ ComputeVersionString

SpecBuild == InitBuild /\ [][NextBuild]_vars

(***************************************************************************)
(* Properties of build_version.rs, checked under SpecBuild                 *)
(***************************************************************************)

\* An environment variable that is set to something else than blanks.
Holds(var) == var.some /\ Trim(var.value) # <<>>

GithubAvailable == env.GITHUB_ACTIONS.some /\ env.owner_repo /\ env.github.ok

ManifestAvailable ==
    LET v == read_manifest_version(env.manifest) IN
    v.some /\ Trim(v.value) # <<>> /\ Trim(v.value) # V000

\* C22: the printed version comes from the first available source in the
\* order BUILD_VERSION, CARGO_PKG_VERSION_OVERRIDE, GitHub (in GitHub
\* Actions), the manifest, the git fallback, whatever the later sources hold.
C22_FirstAvailableSourceWins ==
    (printed.done /\ args.format = "version") =>
        IF Holds(env.BUILD_VERSION) THEN printed = OkOf(env.BUILD_VERSION.value)
        ELSE IF Holds(env.CARGO_PKG_VERSION_OVERRIDE)
        THEN printed = OkOf(env.CARGO_PKG_VERSION_OVERRIDE.value)
        ELSE printed.ok =>
             IF GithubAvailable THEN printed.value = env.github.value
             ELSE IF ManifestAvailable
             THEN LET v == Trim(read_manifest_version(env.manifest).value) IN
                  printed.value \in {v, v \o <<"-">> \o ShortSha}
             ELSE printed.value = DevPrefix \o ShortSha

\* C23: with BUILD_VERSION set to nothing or to blanks and
\* CARGO_PKG_VERSION_OVERRIDE set to a version, that version is printed.
C23_BlankBuildVersionFallsThrough ==
    (/\ printed.done /\ args.format = "version"
     /\ env.BUILD_VERSION.some /\ Trim(env.BUILD_VERSION.value) = <<>>
     /\ Holds(env.CARGO_PKG_VERSION_OVERRIDE))
    => printed = OkOf(env.CARGO_PKG_VERSION_OVERRIDE.value)

\* C24: for format "version" and no owner, repo or token argument,
\* compute_version_string returns the string build_version prints and
\* fails exactly when build_version fails.
C24_ComputeAgreesWithBuild ==
    (/\ printed.done /\ computed.done
     /\ args.format = "version"
     /\ ~args.owner.some /\ ~args.repo.some /\ ~args.github_token.some)
    => /\ printed.ok = computed.ok
       /\ printed.ok => printed.value = computed.value

C24_Witness ==
    /\ printed.done /\ computed.done /\ args.format = "version"
    /\ ~Holds(env.BUILD_VERSION) /\ ~Holds(env.CARGO_PKG_VERSION_OVERRIDE)
    /\ ~env.GITHUB_ACTIONS.some
    /\ printed.ok /\ computed.ok
    /\ printed.value = V010 \o <<"-">> \o ShortSha
    /\ computed.value = printed.value


(***************************************************************************)
(* update_cargo_toml_version applied to any manifest                       *)
(***************************************************************************)

\* Manifests of up to three lines: a first line that is a table header, a
\* line that does not parse, or absent; a version line or none; one more
\* line or none.
UpdateManifests ==
    {header \o version \o tail :
        header \in {LinePackage, LineWorkspacePackage, LineWorkspace, LineBroken, <<>>},
        version \in {<<>>, VersionLine(V010), VersionLine(V020)},
        tail \in {<<>>, LineDescOld, LineSerdeOld}}

InitUpdate ==
    /\ head_content = <<>> /\ working_content = <<>>
    /\ diff = <<>>
    /\ staged = NotRun(<<>>)
    /\ non_version = NotRun(FALSE)
    /\ \E v \in VersionPairs : old_version = v[1]
    /\ new_version \in {V010, V020}
    /\ state = <<>> /\ pending = <<>> /\ prev_state = <<>>
    /\ indexFile = Missing /\ ipc = "verified" /\ result = "none" /\ call = NoCall
    /\ manifest_path = <<>>
    /\ objects = {} /\ branchRef = NoCommit /\ writes = {} /\ failedAt = "none"
    /\ manifest_file \in UpdateManifests
    /\ args = NoArgs
    /\ start = Snapshot
    /\ BuildUnused

SpecUpdate == InitUpdate /\ [][UpdateCargoToml]_vars

(***************************************************************************)
(* Properties of version_update.rs, checked under SpecUpdate               *)
(***************************************************************************)

NoPackageTable(content) ==
    \A i \in DOMAIN SplitLines(content) :
        SplitLines(content)[i] \notin {LinePackage, LineWorkspacePackage}

\* C25: a manifest with neither [package] nor [workspace.package] makes
\* update_cargo_toml_version fail, and after that error, as after a read
\* or a parse error, the manifest is the one that was there.
C25_NoTableIsAnErrorWithoutWrite ==
    /\ failedAt = "update" =>
          /\ ipc = "failed" /\ result = "err"
          /\ manifest_file = start.manifest_file
          /\ writes = {}
    /\ (ipc # "verified" /\ NoPackageTable(start.manifest_file)) =>
          /\ failedAt = "update"
          /\ manifest_file = start.manifest_file

C25_Witness ==
    /\ failedAt = "update" /\ ipc = "failed"
    /\ NoPackageTable(manifest_file)
    /\ Contains(manifest_file, LineWorkspace)
    /\ Contains(manifest_file, VersionLine(V010))
    /\ new_version = V020
    /\ manifest_file = start.manifest_file

(***************************************************************************)
(* The predicate and the filter of diff.rs together, under SpecDiff        *)
(***************************************************************************)

ChangedLinesOfDiff == ChangedLines(Delete) \cup ChangedLines(Insert)

\* C26: when has_non_version_changes returns false for the four arguments,
\* apply_version_hunks of the same arguments returns working_content.
C26_PredicateFalseGivesWorking ==
    (non_version.done /\ ~non_version.value /\ staged.done) =>
        staged.value = working_content

C26_Witness ==
    /\ non_version.done /\ ~non_version.value
    /\ staged.done /\ staged.value = working_content
    /\ head_content # working_content
    /\ Len(SplitLines(head_content)) # Len(SplitLines(working_content))
    /\ \E i \in DOMAIN diff : diff[i].tag = Equal

\* C27: when no Delete or Insert line of the diff holds "version",
\* old_version or new_version, apply_version_hunks returns head_content.
C27_NoVersionChangeGivesHead ==
    (/\ staged.done
     /\ \A l \in ChangedLinesOfDiff :
           ~is_version_related(l, old_version, new_version))
    => staged.value = head_content

C27_Witness ==
    /\ staged.done /\ staged.value = head_content
    /\ head_content # working_content
    /\ ChangedLines(Delete) # {} /\ ChangedLines(Insert) # {}
    /\ \A l \in ChangedLinesOfDiff :
          ~is_version_related(l, old_version, new_version)

(***************************************************************************)
(* The entries of stage_file's result, checked under SpecIndex             *)
(***************************************************************************)

StageFileReturned == ipc = "loaded" /\ call.made /\ result = "ok"

\* The entries of paths other than the staged one, in index order.
OtherEntries(entries) ==
    LET NotStagedPath(e) == e.path # call.path
    IN SelectSeq(entries, NotStagedPath)

\* C28: stage_file changes the entry of the staged path only: the entries
\* of every other path are in the result with the same path, id, mode,
\* flags and stat, and none is added or removed.
C28_OtherEntriesKept ==
    StageFileReturned =>
        /\ OtherEntries(state) = OtherEntries(prev_state)
        /\ OtherEntries(ChunkEntries(SubSeq(indexFile.chunks, 2, Len(state) + 1)))
              = OtherEntries(prev_state)

C28_Witness ==
    /\ StageFileReturned
    /\ Len(OtherEntries(prev_state)) = 2
    /\ \E i, j \in DOMAIN prev_state :
          /\ PathLess(prev_state[i].path, call.path)
          /\ PathLess(call.path, prev_state[j].path)
          /\ prev_state[i].mode = "SYMLINK"
          /\ prev_state[j].mode = "FILE_EXECUTABLE"
          /\ prev_state[i].stat = "stat-of-file"
    /\ EntriesAt(prev_state, call.path) # {}
    /\ OtherEntries(state) = OtherEntries(prev_state)

\* C29: the entry stage_file records for the staged path is a regular file
\* with empty flags and the default stat, whatever the mode of the entry it
\* replaces: an executable, a symlink or a gitlink becomes a regular file.
C29_StagedEntryIsRegularFile ==
    StageFileReturned =>
        \A i \in EntriesAt(state, call.path) :
            /\ state[i].mode = "FILE"
            /\ state[i].flags = "empty"
            /\ state[i].stat = "default"

ReplacedModes == {prev_state[i].mode : i \in EntriesAt(prev_state, call.path)}

C29_Witness ==
    /\ StageFileReturned
    /\ ReplacedModes \cap {"FILE_EXECUTABLE", "SYMLINK", "COMMIT"} # {}
    /\ \A i \in EntriesAt(prev_state, call.path) :
          prev_state[i].flags = "ASSUME_VALID" /\ prev_state[i].stat = "stat-of-file"
    /\ \E i \in EntriesAt(state, call.path) :
          state[i].mode = "FILE" /\ state[i].flags = "empty"

====
